---- MODULE Spec2Model ----
(***************************************************************************)
(* A model of qvm2vplanx (src/coverstion.py): the XLSX -> vplanx converter. *)
(*                                                                         *)
(* Strings are sequences of one-character strings, so that strip(),        *)
(* upper(), lower(), the substring test `in` and the regular expression    *)
(* [A-Z]+ are computed character by character as Python computes them.     *)
(* An optional value is None or Some(x); the outcome of a call is Ok(v) or  *)
(* Raise(exception, message), told apart by the field exc.                 *)
(***************************************************************************)
EXTENDS Integers, Sequences, FiniteSets, TLC

VARIABLES
    col_s,        \* col_to_idx: the argument s
    col_res,      \* col_to_idx: the outcome (an index, or the ValueError)
    z_names,      \* pick_sheet_file: z.namelist(), the digits of each sheet<N>.xml
    sheet_index,  \* pick_sheet_file: the argument sheet_index
    sheet_file,   \* pick_sheet_file: the outcome
    c_cell,       \* read_rows_from_sheet: one <c> element
    c_ss,         \* read_rows_from_sheet: shared_strings
    c_val,        \* read_rows_from_sheet: the value appended for the cell
    pc,           \* main: the position of the run
    workbook,     \* main: the input file
    args,         \* main: the parsed command line
    rows,         \* parse_xlsx: the materialized rows
    header,       \* parse_xlsx: the header row, trimmed and lower-cased
    name_to_idx,  \* parse_xlsx: the column of each key
    entries,      \* main: the records parse_xlsx returned
    error,        \* main: the exception parse_xlsx raised
    tree,         \* main: the document build_vplanx returned
    out_file,     \* the output file on disk
    exit_status,  \* the status the process ended with
    b_entries,    \* build_vplanx: the argument entries
    b_tree        \* build_vplanx: the document returned

colVars   == <<col_s, col_res>>
sheetVars == <<z_names, sheet_index, sheet_file>>
cellVars  == <<c_cell, c_ss, c_val>>
mainVars  == <<pc, workbook, args, rows, header, name_to_idx, entries, error, tree, out_file, exit_status>>
buildVars == <<b_entries, b_tree>>
vars      == <<colVars, sheetVars, cellVars, mainVars, buildVars>>

None == << >>

Some(x) == << x >>

Val(o) == o[1]

Ok(v) == [exc |-> "", val |-> v]

Raise(e, m) == [exc |-> e, msg |-> m]

Idle == [exc |-> "idle"]

IsOk(r) == r.exc = ""

-----------------------------------------------------------------------------
(* Python string primitives *)

UpperLetters ==
    << "A","B","C","D","E","F","G","H","I","J","K","L","M",
       "N","O","P","Q","R","S","T","U","V","W","X","Y","Z" >>

LowerLetters ==
    << "a","b","c","d","e","f","g","h","i","j","k","l","m",
       "n","o","p","q","r","s","t","u","v","w","x","y","z" >>

Whitespace == {" ", "\t", "\n"}

LetterPos(letters, ch) == CHOOSE i \in 1..26 : letters[i] = ch

IsUpperLetter(ch) == \E i \in 1..26 : UpperLetters[i] = ch

IsLowerLetter(ch) == \E i \in 1..26 : LowerLetters[i] = ch

\* ord(ch) - 64 for ch in A..Z
OrdMinus64(ch) == LetterPos(UpperLetters, ch)

upper(s) ==
    [i \in 1..Len(s) |->
        IF IsLowerLetter(s[i]) THEN UpperLetters[LetterPos(LowerLetters, s[i])] ELSE s[i]]

lower(s) ==
    [i \in 1..Len(s) |->
        IF IsUpperLetter(s[i]) THEN LowerLetters[LetterPos(UpperLetters, s[i])] ELSE s[i]]

RECURSIVE lstrip(_)
lstrip(s) ==
    IF s # <<>> /\ Head(s) \in Whitespace THEN lstrip(Tail(s)) ELSE s

RECURSIVE rstrip(_)
rstrip(s) ==
    IF s # <<>> /\ s[Len(s)] \in Whitespace THEN rstrip(SubSeq(s, 1, Len(s) - 1)) ELSE s

strip(s) == rstrip(lstrip(s))

\* sub in s
Contains(sub, s) ==
    \E i \in 1..(Len(s) - Len(sub) + 1) : SubSeq(s, i, i + Len(sub) - 1) = sub

\* re.fullmatch(r"[A-Z]+", s)
FullMatchAZ(s) == s # <<>> /\ \A i \in 1..Len(s) : IsUpperLetter(s[i])

\* all sequences over S of length at most n
RECURSIVE SeqsUpTo(_, _)
SeqsUpTo(S, n) ==
    IF n = 0 THEN {<<>>}
    ELSE LET shorter == SeqsUpTo(S, n - 1)
         IN  shorter \cup {Append(q, x) : q \in shorter, x \in S}

-----------------------------------------------------------------------------
(* col_to_idx *)

\* the loop with ord(ch) - 65 in place of ord(ch) - 64
RECURSIVE ColLoop_ZeroBased(_, _)
ColLoop_ZeroBased(n, s) ==
    IF s = <<>> THEN n ELSE ColLoop_ZeroBased(n * 26 + OrdMinus64(Head(s)) - 1, Tail(s))

RECURSIVE ColLoop(_, _)
ColLoop(n, s) ==
    IF s = <<>> THEN n ELSE ColLoop(n * 26 + OrdMinus64(Head(s)), Tail(s))

\* the check with [A-Z]* and no test for the empty string
col_to_idx_AcceptEmpty(s0) ==
    IF \E i \in 1..Len(strip(s0)) : ~IsUpperLetter(upper(strip(s0))[i])
    THEN Raise("ValueError", "Bad column letter")
    ELSE Ok(ColLoop(0, upper(strip(s0))) - 1)

col_to_idx(s0) ==
    LET s == upper(strip(s0))
    IN  IF s = <<>> \/ ~FullMatchAZ(s) THEN Raise("ValueError", "Bad column letter")
        ELSE Ok(ColLoop(0, s) - 1)

MaxColLen == 3

ColChars == {"A", "B", "Z", "a", "z", "1", " ", "-"}

ColInputs == SeqsUpTo(ColChars, MaxColLen)

ColInit ==
    /\ col_s \in ColInputs
    /\ col_res = Idle

ColToIdx ==
    /\ col_res.exc = "idle"
    /\ col_res' = col_to_idx(col_s)
    /\ UNCHANGED << col_s, sheetVars, cellVars, mainVars, buildVars >>

-----------------------------------------------------------------------------
(* decimal text <-> integer, as int() and the archive's entry names use it *)

DigitChars == << "0","1","2","3","4","5","6","7","8","9" >>

IsDigit(ch) == \E i \in 1..10 : DigitChars[i] = ch

DigitVal(ch) == (CHOOSE i \in 1..10 : DigitChars[i] = ch) - 1

RECURSIVE NatStr(_)
NatStr(n) ==
    IF n < 10 THEN << DigitChars[n + 1] >>
    ELSE Append(NatStr(n \div 10), DigitChars[(n % 10) + 1])

IntStr(n) == IF n < 0 THEN << "-" >> \o NatStr(0 - n) ELSE NatStr(n)

RECURSIVE DigitsVal(_, _)
DigitsVal(n, s) ==
    IF s = <<>> THEN n ELSE DigitsVal(n * 10 + DigitVal(Head(s)), Tail(s))

\* int(text): None is a TypeError, anything but [sign] digits+ a ValueError
IntOfDigits(neg, body) ==
    IF body = <<>> \/ \E i \in 1..Len(body) : ~IsDigit(body[i])
    THEN Raise("ValueError", "invalid literal for int()")
    ELSE IF neg THEN Ok(0 - DigitsVal(0, body)) ELSE Ok(DigitsVal(0, body))

IntOfStripped(s) ==
    IF s # <<>> /\ Head(s) \in {"-", "+"} THEN IntOfDigits(Head(s) = "-", Tail(s))
    ELSE IntOfDigits(FALSE, s)

int(text) ==
    IF text = None THEN Raise("TypeError", "int() argument must be a string")
    ELSE IntOfStripped(strip(Val(text)))

-----------------------------------------------------------------------------
(* pick_sheet_file *)

\* ord() of the characters that follow "xl/worksheets/sheet" in an entry name
Ord(ch) ==
    CASE ch = "." -> 46
      [] IsDigit(ch) -> 48 + DigitVal(ch)
      [] ch = "l" -> 108
      [] ch = "m" -> 109
      [] ch = "x" -> 120

\* Python's str <
RECURSIVE StrLess(_, _)
StrLess(a, b) ==
    IF a = <<>> THEN b # <<>>
    ELSE IF b = <<>> THEN FALSE
    ELSE IF Head(a) = Head(b) THEN StrLess(Tail(a), Tail(b))
    ELSE Ord(Head(a)) < Ord(Head(b))

\* the entry xl/worksheets/sheet<N>.xml, by the text after "xl/worksheets/sheet"
SheetEntry(n) == NatStr(n) \o << ".", "x", "m", "l" >>

\* an entry the regular expression does not match
OtherEntry == << ".", "x", "m", "l" >>

\* re.match(r"xl/worksheets/sheet\d+\.xml$", n)
IsSheetEntry(e) ==
    /\ Len(e) > 4
    /\ SubSeq(e, Len(e) - 3, Len(e)) = << ".", "x", "m", "l" >>
    /\ \A i \in 1..(Len(e) - 4) : IsDigit(e[i])

\* sorted(S) for a set of distinct strings
RECURSIVE sorted(_)
sorted(S) ==
    IF S = {} THEN <<>>
    ELSE LET least == CHOOSE x \in S : \A y \in S \ {x} : StrLess(x, y)
         IN  << least >> \o sorted(S \ {least})

pick_sheet_file(namelist, idx) ==
    LET sheets == sorted({n \in namelist : IsSheetEntry(n)})
    IN  IF sheets = <<>>
        THEN Raise("RuntimeError", "No xl/worksheets/sheetN.xml files in workbook.")
        ELSE IF idx < 1 \/ idx > Len(sheets)
        THEN Raise("RuntimeError", "--sheet out of range")
        ELSE Ok(sheets[idx])

SheetNumbers == {1, 2, 3, 9, 10, 11, 20}

MaxSheetIndex == 7

SheetInit ==
    /\ \E S \in SUBSET SheetNumbers, o \in SUBSET {OtherEntry} :
          z_names = {SheetEntry(n) : n \in S} \cup o
    /\ sheet_index \in 0..MaxSheetIndex
    /\ sheet_file = Idle

PickSheetFile ==
    /\ sheet_file.exc = "idle"
    /\ sheet_file' = pick_sheet_file(z_names, sheet_index)
    /\ UNCHANGED << z_names, sheet_index, colVars, cellVars, mainVars, buildVars >>

-----------------------------------------------------------------------------
(* read_rows_from_sheet *)

\* a <c> element: t is c.get("t"); v is None without a <v> node, else Some(v.text),
\* where v.text is None for an empty node and Some(string) otherwise
NoV(t) == [t |-> t, v |-> None]

Cell(t, text) == [t |-> t, v |-> Some(text)]

\* seq[idx], with Python's negative indices
Index(seq, idx) ==
    IF idx >= 0
    THEN IF idx < Len(seq) THEN Ok(seq[idx + 1])
         ELSE Raise("IndexError", "list index out of range")
    ELSE IF Len(seq) + idx >= 0 THEN Ok(seq[Len(seq) + idx + 1])
         ELSE Raise("IndexError", "list index out of range")

\* shared_strings[idx] if idx < len(shared_strings) else "", for idx = int(v.text)
SharedValue(idx, shared_strings) ==
    IF ~IsOk(idx) THEN idx
    ELSE IF idx.val < Len(shared_strings) THEN Index(shared_strings, idx.val)
    ELSE Ok(<<>>)

\* the value the loop body appends for one cell, or the exception it raises
CellValue(c, shared_strings) ==
    IF c.v = None THEN Ok(<<>>)
    ELSE IF c.t = "s" THEN SharedValue(int(Val(c.v)), shared_strings)
    ELSE IF Val(c.v) = None THEN Ok(<<>>) ELSE Ok(Val(Val(c.v)))

RECURSIVE Flatten(_)
Flatten(ss) == IF ss = <<>> THEN <<>> ELSE Head(ss) \o Flatten(Tail(ss))

\* the first exception among the cells in document order, or the rows
RowsOrRaise(vals, flat) ==
    IF \E k \in 1..Len(flat) : ~IsOk(flat[k])
    THEN flat[CHOOSE k \in 1..Len(flat) :
                 ~IsOk(flat[k]) /\ \A m \in 1..(k - 1) : IsOk(flat[m])]
    ELSE Ok([i \in 1..Len(vals) |-> [j \in 1..Len(vals[i]) |-> vals[i][j].val]])

CellValues(sheet, shared_strings) ==
    [i \in 1..Len(sheet) |->
        [j \in 1..Len(sheet[i]) |-> CellValue(sheet[i][j], shared_strings)]]

read_rows_from_sheet(sheet, shared_strings) ==
    RowsOrRaise(CellValues(sheet, shared_strings),
                Flatten(CellValues(sheet, shared_strings)))

MaxShared == 2

MaxIdx == 3

SharedPool == { << "a" >>, << "b", "c" >> }

CellTexts ==
    {Some(IntStr(i)) : i \in (0 - MaxIdx)..MaxIdx}
        \cup {None, Some(<<>>), Some(<< "x" >>), Some(<< " ", "1" >>), Some(<< "+", "0" >>)}

CellInit ==
    /\ c_ss \in SeqsUpTo(SharedPool, MaxShared)
    /\ c_cell \in {NoV(t) : t \in {"s", "n"}}
                    \cup {Cell(t, x) : t \in {"s", "n"}, x \in CellTexts}
    /\ c_val = Idle

ReadCell ==
    /\ c_val.exc = "idle"
    /\ c_val' = CellValue(c_cell, c_ss)
    /\ UNCHANGED << c_cell, c_ss, colVars, sheetVars, mainVars, buildVars >>

-----------------------------------------------------------------------------
(* read_shared_strings *)

\* wb.shared is None when the archive has no xl/sharedStrings.xml, else Some of the
\* <si> entries, each the sequence of the texts of its <t> runs
read_shared_strings(wb) ==
    IF wb.shared = None THEN <<>>
    ELSE [i \in 1..Len(Val(wb.shared)) |-> Flatten(Val(wb.shared)[i])]

-----------------------------------------------------------------------------
(* parse_xlsx *)

\* the truth value of an optional string argument
Truthy(o) == o # None /\ Val(o) # <<>>

\* the truth value of an optional integer argument
TruthyInt(o) == o # None /\ Val(o) # 0

\* seq[start:] for start >= 0
SliceFrom(seq, start) == SubSeq(seq, start + 1, Len(seq))

\* r[idx].strip() if idx < len(r) else ""
Field(r, idx) == IF idx < Len(r) THEN strip(r[idx + 1]) ELSE <<>>

\* the same for a column that may be unassigned
OptField(r, idx) == IF idx # None THEN Field(r, Val(idx)) ELSE <<>>

Entry(r, t, l, d, ty) ==
    [title |-> Field(r, t), desc |-> OptField(r, d), link |-> Field(r, l),
     type |-> OptField(r, ty)]

\* the loop with `if not r[t_idx]` in place of the test of the trimmed title
RECURSIVE ExplicitLoop_NoStrip(_, _, _, _, _)
ExplicitLoop_NoStrip(rs, t, l, d, ty) ==
    IF rs = <<>> THEN <<>>
    ELSE IF t >= Len(Head(rs)) \/ Head(rs)[t + 1] = <<>>
         THEN ExplicitLoop_NoStrip(Tail(rs), t, l, d, ty)
         ELSE << Entry(Head(rs), t, l, d, ty) >> \o ExplicitLoop_NoStrip(Tail(rs), t, l, d, ty)

\* the loop of the explicit-column mode
RECURSIVE ExplicitLoop(_, _, _, _, _)
ExplicitLoop(rs, t, l, d, ty) ==
    IF rs = <<>> THEN <<>>
    ELSE LET r    == Head(rs)
             rest == ExplicitLoop(Tail(rs), t, l, d, ty)
         IN  IF t >= Len(r) THEN rest
             ELSE IF strip(r[t + 1]) = <<>> THEN rest
             ELSE << Entry(r, t, l, d, ty) >> \o rest

\* the loop of the header mode
RECURSIVE HeaderLoop(_, _)
HeaderLoop(rs, m) ==
    IF rs = <<>> THEN <<>>
    ELSE LET r    == Head(rs)
             rest == HeaderLoop(Tail(rs), m)
         IN  IF Field(r, Val(m.title)) = <<>> THEN rest
             ELSE << Entry(r, Val(m.title), Val(m.link), m.description, m.type) >> \o rest

sTitle == << "t", "i", "t", "l", "e" >>

sLink == << "l", "i", "n", "k" >>

sDescription == << "d", "e", "s", "c", "r", "i", "p", "t", "i", "o", "n" >>

sType == << "t", "y", "p", "e" >>

\* [str(x).strip().lower() for x in r]
Low(r) == [j \in 1..Len(r) |-> lower(strip(r[j]))]

HasTitleAndLink(low) ==
    /\ \E j \in 1..Len(low) : Contains(sTitle, low[j])
    /\ \E j \in 1..Len(low) : Contains(sLink, low[j])

ScanWindow == 30

EmptyMap == [title |-> None, link |-> None, description |-> None, type |-> None]

\* one iteration of the loop over enumerate(header); j is 0-based
MapStep(m, j, name) ==
    IF Contains(sTitle, name) /\ m.title = None THEN [m EXCEPT !.title = Some(j)]
    ELSE IF Contains(sLink, name) /\ m.link = None THEN [m EXCEPT !.link = Some(j)]
    ELSE IF Contains(sDescription, name) /\ m.description = None
         THEN [m EXCEPT !.description = Some(j)]
    ELSE IF name = sType /\ m.type = None THEN [m EXCEPT !.type = Some(j)]
    ELSE m

RECURSIVE MapLoop(_, _, _)
MapLoop(m, j, hdr) ==
    IF j >= Len(hdr) THEN m
    ELSE MapLoop(MapStep(m, j, hdr[j + 1]), j + 1, hdr)

NameToIdx(hdr) == MapLoop(EmptyMap, 0, hdr)

\* what parse_xlsx leaves: the exception or the entries, and its locals
Parsed(exc, msg, ents, rs, hdr, m) ==
    [exc |-> exc, msg |-> msg, val |-> ents, rows |-> rs, header |-> hdr,
     name_to_idx |-> m]

Failed(exc, msg, rs, hdr, m) == Parsed(exc, msg, <<>>, rs, hdr, m)

\* the mode without its `if not entries: raise`
ExplicitEntries_NoEmptyCheck(rs, ents) == Parsed("", "", ents, rs, None, EmptyMap)

ExplicitEntries(rs, ents) ==
    IF ents = <<>>
    THEN Failed("RuntimeError", "No entries found using the specified column letters.",
                rs, None, EmptyMap)
    ELSE Parsed("", "", ents, rs, None, EmptyMap)

\* the explicit-column mode once the four column letters are decoded
ExplicitCols(rs, start_row, t, l, d, ty) ==
    IF ~IsOk(t) \/ ~IsOk(l) \/ ~IsOk(d) \/ ~IsOk(ty)
    THEN Failed("ValueError", "Bad column letter", rs, None, EmptyMap)
    ELSE ExplicitEntries(rs, ExplicitLoop(SliceFrom(rs, start_row), t.val, l.val,
                                          d.val, ty.val))

\* col_to_idx(c) if c else None
OptCol(c) ==
    IF ~Truthy(c) THEN Ok(None)
    ELSE IF IsOk(col_to_idx(Val(c))) THEN Ok(Some(col_to_idx(Val(c)).val))
    ELSE col_to_idx(Val(c))

ExplicitMode(rs, a) ==
    ExplicitCols(rs, IF TruthyInt(a.header_row) THEN Val(a.header_row) ELSE 1,
                 col_to_idx(Val(a.title_col)), col_to_idx(Val(a.link_col)),
                 OptCol(a.desc_col), OptCol(a.type_col))

\* the index of the first row of rows[:30] with 'title' and 'link', or None
FindHeader(rs) ==
    IF \E i \in 0..(Len(rs) - 1) : i < ScanWindow /\ HasTitleAndLink(Low(rs[i + 1]))
    THEN Some(CHOOSE i \in 0..(Len(rs) - 1) :
                 /\ i < ScanWindow
                 /\ HasTitleAndLink(Low(rs[i + 1]))
                 /\ \A k \in 0..(i - 1) : ~HasTitleAndLink(Low(rs[k + 1])))
    ELSE None

HeaderEntries(rs, hdr, m, ents) ==
    IF ents = <<>>
    THEN Failed("RuntimeError", "No entries found under the detected header row.",
                rs, Some(hdr), m)
    ELSE Parsed("", "", ents, rs, Some(hdr), m)

\* the header mode once the header row (0-based h) is mapped
HeaderMapped(rs, h, hdr, m) ==
    IF m.title = None \/ m.link = None
    THEN Failed("RuntimeError", "Header row exists but missing required 'Title' and 'Link'.",
                rs, Some(hdr), m)
    ELSE HeaderEntries(rs, hdr, m, HeaderLoop(SliceFrom(rs, h + 1), m))

HeaderAt(rs, h, hdr) == HeaderMapped(rs, h, hdr, NameToIdx(hdr))

HeaderFound(rs, h) ==
    IF h = None
    THEN Failed("RuntimeError", "Header with 'Title' and 'Link' not found.",
                rs, None, EmptyMap)
    ELSE HeaderAt(rs, Val(h), Low(rs[Val(h) + 1]))

HeaderMode(rs, a) ==
    IF TruthyInt(a.header_row)
    THEN IF Val(a.header_row) - 1 >= Len(rs)
         THEN Failed("RuntimeError", "--header-row beyond last row", rs, None, EmptyMap)
         ELSE HeaderAt(rs, Val(a.header_row) - 1, Low(rs[Val(a.header_row)]))
    ELSE HeaderFound(rs, FindHeader(rs))

\* parse_xlsx once the sheet is picked (sf) and its rows are read (rr)
ParseRows(sf, rr, a) ==
    IF ~IsOk(sf) THEN Failed(sf.exc, sf.msg, <<>>, None, EmptyMap)
    ELSE IF ~IsOk(rr) THEN Failed(rr.exc, rr.msg, <<>>, None, EmptyMap)
    ELSE IF Truthy(a.title_col) /\ Truthy(a.link_col) THEN ExplicitMode(rr.val, a)
    ELSE HeaderMode(rr.val, a)

parse_xlsx(wb, a) ==
    IF ~wb.is_zip THEN Failed("RuntimeError", "Not a valid XLSX", <<>>, None, EmptyMap)
    ELSE ParseRows(pick_sheet_file(wb.names, a.sheet),
                   read_rows_from_sheet(wb.sheet, read_shared_strings(wb)), a)

-----------------------------------------------------------------------------
(* build_vplanx, save_tree *)

VERSION == "1.2.0"

\* the section with the title written as the pattern
Section_TitleAsPattern(e, k) ==
    [id |-> 3 * k - 2,
     name |-> e.title,
     attributes |-> << [name |-> "details", value |-> e.desc],
                       [name |-> "type", value |-> e.type],
                       [name |-> "planned_elements", value |-> << "1" >>] >>,
     metricsPort |-> << [id |-> 3 * k - 1,
                         name |-> e.title,
                         mappingPatterns |-> << [id |-> 3 * k,
                                                 domains |-> << "HDL" >>,
                                                 entityKinds |-> << "INSTANCE" >>,
                                                 pattern |-> e.title] >>] >>]

\* the section of the k-th entry; uuid.uuid1() is modelled by the number of the call
Section(e, k) ==
    [id |-> 3 * k - 2,
     name |-> e.title,
     attributes |-> << [name |-> "details", value |-> e.desc],
                       [name |-> "type", value |-> e.type],
                       [name |-> "planned_elements", value |-> << "1" >>] >>,
     metricsPort |-> << [id |-> 3 * k - 1,
                         name |-> e.title,
                         mappingPatterns |-> << [id |-> 3 * k,
                                                 domains |-> << "HDL" >>,
                                                 entityKinds |-> << "INSTANCE" >>,
                                                 pattern |-> e.link] >>] >>]

build_vplanx(ents, plan_name) ==
    [metaData |-> [id |-> 0, name |-> plan_name, planId |-> 0,
                   sourceTool |-> "qvm2vplanx", toolVersion |-> VERSION,
                   schemaVersion |-> "1.0", buildTime |-> "time.strftime"],
     rootElements |-> [k \in 1..Len(ents) |-> Section(ents[k], k)]]

save_tree(t, gzip_out) == Some([gzip |-> gzip_out, xml |-> t])

MaxEntries == 2

EntryPool ==
    [title : {<< "T", "1" >>, << "T", "2" >>}, desc : {<< >>, << "d" >>},
     link : {<< >>, << "h", ":", "x" >>}, type : {<< >>, << "t" >>}]

BuildInit ==
    /\ b_entries \in SeqsUpTo(EntryPool, MaxEntries)
    /\ b_tree = None

BuildCall ==
    /\ b_tree = None
    /\ b_tree' = Some(build_vplanx(b_entries, "plan"))
    /\ UNCHANGED << b_entries, colVars, sheetVars, cellVars, mainVars >>

-----------------------------------------------------------------------------
(* the runs of main *)

MaxRows == 3

\* a cell that refers to shared string i, and a cell with an inline literal
S(i) == Cell("s", Some(IntStr(i)))

N(text) == Cell("n", Some(text))

SharedStrings ==
    << << << "T", "i" >>, << "t", "l", "e" >> >>,
       << << "L", "i", "n", "k" >> >>,
       << << "D", "e", "s", "c", "r", "i", "p", "t", "i", "o", "n" >> >>,
       << << "T", "y", "p", "e", " " >> >>,
       << << " ", "T", "1", " " >> >>,
       << << " " >> >>,
       << << "T", "i", "t", "l", "e", " ", "L", "i", "n", "k" >> >>,
       << << "L", "1" >> >> >>

\* rows of cells: blank and header rows, data rows with a title to trim, with a blank
\* title beside populated cells, and with missing, out-of-range and negative references
RowPool ==
    { << >>,
      << S(0), S(1) >>,
      << S(1), S(2), S(3), S(0) >>,
      << S(6) >>,
      << S(0), S(6) >>,
      << S(4), S(7), N(<< "d", "1" >>), S(3) >>,
      << S(5), S(7), Cell("n", None) >>,
      << NoV("s"), S(8), S(0 - 1) >> }

Sheets == SeqsUpTo(RowPool, MaxRows)

Workbook(exists, is_zip, names, shared, sheet) ==
    [exists |-> exists, is_zip |-> is_zip, names |-> names, shared |-> shared,
     sheet |-> sheet, plan_name |-> "plan"]

Args(sheet, header_row, cols) ==
    [sheet |-> sheet, header_row |-> header_row, title_col |-> cols[1],
     link_col |-> cols[2], desc_col |-> cols[3], type_col |-> cols[4]]

ColArgs ==
    { << None, None, None, None >>,
      << Some(<< >>), Some(<< "B" >>), None, None >>,
      << Some(<< "A" >>), Some(<< "B" >>), None, None >>,
      << Some(<< " ", "a" >>), Some(<< "b", " " >>), Some(<< "C" >>), Some(<< "d" >>) >>,
      << Some(<< "A" >>), Some(<< "B" >>), Some(<< "1" >>), None >> }

HeaderRows == {None} \cup {Some(n) : n \in 1..MaxRows}

GoodNames == {SheetEntry(1), OtherEntry}

\* the workbooks and command lines of the runs: every sheet with every command line
\* for a well-formed archive, and the archive-level failures with the short sheets
Runs ==
    {<< Workbook(TRUE, TRUE, GoodNames, Some(SharedStrings), sh), Args(1, hr, c) >> :
        sh \in Sheets, hr \in HeaderRows, c \in ColArgs}
    \cup
    {<< Workbook(ex, zp, nm, shd, sh), Args(si, None, c) >> :
        ex \in BOOLEAN, zp \in BOOLEAN, nm \in {{}, {OtherEntry}, GoodNames},
        shd \in {None, Some(SharedStrings)}, sh \in SeqsUpTo(RowPool, 1),
        si \in {0, 1, 2}, c \in {<< None, None, None, None >>}}

MainIdle ==
    /\ pc = "idle"
    /\ workbook = Workbook(FALSE, FALSE, {}, None, <<>>)
    /\ args = Args(1, None, << None, None, None, None >>)
    /\ rows = <<>>
    /\ header = None
    /\ name_to_idx = EmptyMap
    /\ entries = <<>>
    /\ error = Idle
    /\ tree = None
    /\ out_file = None
    /\ exit_status = None

MainInit ==
    /\ pc = "start"
    /\ \E r \in Runs : workbook = r[1] /\ args = r[2]
    /\ rows = <<>>
    /\ header = None
    /\ name_to_idx = EmptyMap
    /\ entries = <<>>
    /\ error = Idle
    /\ tree = None
    /\ out_file = None
    /\ exit_status = None

\* ap.error: the input file does not exist
FileNotFound ==
    /\ pc = "start"
    /\ ~workbook.exists
    /\ pc' = "exited"
    /\ exit_status' = Some(2)
    /\ UNCHANGED << workbook, args, rows, header, name_to_idx, entries, error, tree,
                    out_file, colVars, sheetVars, cellVars, buildVars >>

\* parse_xlsx returns
ParseReturns ==
    /\ pc = "start"
    /\ workbook.exists
    /\ \E p \in {parse_xlsx(workbook, args)} :
           /\ IsOk(p)
           /\ entries' = p.val
           /\ rows' = p.rows
           /\ header' = p.header
           /\ name_to_idx' = p.name_to_idx
    /\ pc' = "build"
    /\ UNCHANGED << workbook, args, error, tree, out_file, exit_status, colVars, sheetVars,
                    cellVars, buildVars >>

\* parse_xlsx raises: log.error, sys.exit(2)
ParseRaises ==
    /\ pc = "start"
    /\ workbook.exists
    /\ \E p \in {parse_xlsx(workbook, args)} :
           /\ ~IsOk(p)
           /\ error' = Raise(p.exc, p.msg)
           /\ rows' = p.rows
           /\ header' = p.header
           /\ name_to_idx' = p.name_to_idx
    /\ pc' = "exited"
    /\ exit_status' = Some(2)
    /\ UNCHANGED << workbook, args, entries, tree, out_file, colVars, sheetVars, cellVars, buildVars >>

BuildVplanx ==
    /\ pc = "build"
    /\ tree' = Some(build_vplanx(entries, workbook.plan_name))
    /\ pc' = "save"
    /\ UNCHANGED << workbook, args, rows, header, name_to_idx, entries, error, out_file,
                    exit_status, colVars, sheetVars, cellVars, buildVars >>

\* save_tree and the end of main; the run's --no-gzip is chosen here
SaveTree ==
    /\ pc = "save"
    /\ \E no_gzip \in BOOLEAN : out_file' = save_tree(Val(tree), ~no_gzip)
    /\ pc' = "done"
    /\ exit_status' = Some(0)
    /\ UNCHANGED << workbook, args, rows, header, name_to_idx, entries, error, tree,
                    colVars, sheetVars, cellVars, buildVars >>

-----------------------------------------------------------------------------
(* specifications *)

ColIdle == col_s = <<>> /\ col_res = Idle

BuildIdle == b_entries = <<>> /\ b_tree = None

SheetIdle == z_names = {} /\ sheet_index = 0 /\ sheet_file = Idle

CellIdle == c_cell = NoV("n") /\ c_ss = <<>> /\ c_val = Idle

\* the converter's run
Init == MainInit /\ ColIdle /\ SheetIdle /\ CellIdle /\ BuildIdle

Next ==
    \/ FileNotFound
    \/ ParseReturns
    \/ ParseRaises
    \/ BuildVplanx
    \/ SaveTree

Spec == Init /\ [][Next]_vars

\* col_to_idx on its own
InitCol == ColInit /\ MainIdle /\ SheetIdle /\ CellIdle /\ BuildIdle

NextCol == ColToIdx

SpecCol == InitCol /\ [][NextCol]_vars

\* pick_sheet_file on its own
InitSheet == SheetInit /\ MainIdle /\ ColIdle /\ CellIdle /\ BuildIdle

NextSheet == PickSheetFile

SpecSheet == InitSheet /\ [][NextSheet]_vars

\* the cell step of read_rows_from_sheet on its own
InitCell == CellInit /\ MainIdle /\ ColIdle /\ SheetIdle /\ BuildIdle

NextCell == ReadCell

SpecCell == InitCell /\ [][NextCell]_vars

\* build_vplanx on its own
InitBuild == BuildInit /\ MainIdle /\ ColIdle /\ SheetIdle /\ CellIdle

NextBuild == BuildCall

SpecBuild == InitBuild /\ [][NextBuild]_vars

-----------------------------------------------------------------------------
(* properties *)

\* the explicit-column mode is chosen
Explicit == Truthy(args.title_col) /\ Truthy(args.link_col)

ExtractionMessages ==
    { "Bad column letter",
      "No entries found using the specified column letters.",
      "--header-row beyond last row",
      "Header with 'Title' and 'Link' not found.",
      "Header row exists but missing required 'Title' and 'Link'.",
      "No entries found under the detected header row." }

EmptyResult ==
    { "No entries found using the specified column letters.",
      "No entries found under the detected header row." }

HeaderResolution ==
    { "Header with 'Title' and 'Link' not found.",
      "Header row exists but missing required 'Title' and 'Link'." }

Returned == pc \in {"build", "save", "done"}

\* parse_xlsx has materialized the rows and gone on to extract the records
Extracted ==
    \/ Returned
    \/ pc = "exited" /\ error.exc # "idle" /\ error.msg \in ExtractionMessages

\* the 0-based column the titles were read from
TitleIdx ==
    IF Explicit THEN col_to_idx(Val(args.title_col)).val ELSE Val(name_to_idx.title)

BlankTitle(r) == TitleIdx >= Len(r) \/ strip(r[TitleIdx + 1]) = <<>>

\* C1: every record parse_xlsx returns has a title that is non-empty after trimming,
\* and is the trimmed title cell of a row whose title cell is not missing, empty or
\* whitespace-only: there are no more records than such rows.
C1_TitleNeverBlank ==
    Returned =>
        /\ \A k \in 1..Len(entries) : strip(entries[k].title) # <<>>
        /\ \A k \in 1..Len(entries) :
              \E i \in 1..Len(rows) :
                  ~BlankTitle(rows[i]) /\ entries[k].title = strip(rows[i][TitleIdx + 1])
        /\ Len(entries) <= Cardinality({i \in 1..Len(rows) : ~BlankTitle(rows[i])})

\* a run that returned records although a data row has a whitespace-only title cell
\* beside a populated cell
C1_Witness ==
    /\ pc = "done"
    /\ \E i \in 2..Len(rows) :
          /\ TitleIdx < Len(rows[i])
          /\ rows[i][TitleIdx + 1] # <<>>
          /\ BlankTitle(rows[i])
          /\ \E j \in 1..Len(rows[i]) : strip(rows[i][j]) # <<>>

\* header-detection mode without a configured header row
HeaderDetection == ~Explicit /\ ~TruthyInt(args.header_row)

\* a cell containing "title" and another cell containing "link", case-insensitively
TitleAndLinkCells(r) ==
    \E j, k \in 1..Len(r) :
        j # k /\ Contains(sTitle, lower(r[j])) /\ Contains(sLink, lower(r[k]))

\* C2: in header-detection mode, when some row among the first 30 has a cell
\* containing "title" and a cell containing "link", both keys are resolved and the
\* run does not fail with a header-resolution error.
C2_HeaderResolved ==
    (/\ Extracted
     /\ HeaderDetection
     /\ \E i \in 1..Len(rows) : i <= ScanWindow /\ TitleAndLinkCells(rows[i]))
        => /\ name_to_idx.title # None
           /\ name_to_idx.link # None
           /\ error.exc = "idle" \/ error.msg \notin HeaderResolution

\* the 1-based row the claim has the explicit-column scan start at
ClaimedStartRow == IF TruthyInt(args.header_row) THEN Val(args.header_row) ELSE 1

\* C3: in explicit-column mode the scan starts at the 1-based row header-row (row 1
\* without one): the records are those of the rows from that row on whose trimmed
\* title cell is non-empty, in order.
C3_ExplicitStartRow ==
    (Extracted /\ Explicit /\ error.exc # "ValueError")
        => entries = ExplicitLoop(SubSeq(rows, ClaimedStartRow, Len(rows)),
                                  col_to_idx(Val(args.title_col)).val,
                                  col_to_idx(Val(args.link_col)).val,
                                  OptCol(args.desc_col).val, OptCol(args.type_col).val)

\* the N of the entry xl/worksheets/sheet<N>.xml
SheetNum(e) == DigitsVal(0, SubSeq(e, 1, Len(e) - 4))

\* C4: pick_sheet_file returns the worksheet entry at the requested 1-based position
\* in the order of the numeric values N.
C4_NumericOrder ==
    IsOk(sheet_file)
        => Cardinality({e \in z_names :
                           IsSheetEntry(e) /\ SheetNum(e) < SheetNum(sheet_file.val)})
               = sheet_index - 1

\* C5: the runs that write the output file are those for which parse_xlsx returned a
\* non-empty record sequence; a run whose extraction failed, the empty result
\* included, ends with status 2 and no output file.
C5_NoOutputWithoutRecords ==
    /\ Returned => entries # <<>> /\ error.exc = "idle"
    /\ out_file # None => pc = "done" /\ entries # <<>> /\ error.exc = "idle"
    /\ error.exc # "idle"
          => pc = "exited" /\ exit_status = Some(2) /\ out_file = None /\ entries = <<>>
    /\ pc = "done" => exit_status = Some(0) /\ out_file # None

\* a run that ended with the empty-result error
C5_Witness ==
    /\ pc = "exited"
    /\ error.exc = "RuntimeError"
    /\ error.msg \in EmptyResult
    /\ rows # <<>>
    /\ out_file = None
    /\ exit_status = Some(2)

\* C6: a cell flagged as a shared-string reference with an integer index yields the
\* table entry for an index in [0, table length) and the empty string for every
\* other index, and a cell without a value node yields the empty string; neither
\* fails.
C6_OutOfRangeIsEmpty ==
    /\ (c_val.exc # "idle" /\ c_cell.v = None) => IsOk(c_val) /\ c_val.val = <<>>
    /\ (/\ c_val.exc # "idle"
        /\ c_cell.v # None
        /\ c_cell.t = "s"
        /\ IsOk(int(Val(c_cell.v))))
          => /\ IsOk(c_val)
             /\ c_val.val = IF /\ 0 <= int(Val(c_cell.v)).val
                               /\ int(Val(c_cell.v)).val < Len(c_ss)
                            THEN c_ss[int(Val(c_cell.v)).val + 1]
                            ELSE <<>>

\* the letters among the characters of the inputs, and the inputs made of letters
ColLetters == {c \in ColChars : IsUpperLetter(c) \/ IsLowerLetter(c)}

LetterInputs == SeqsUpTo(ColLetters, MaxColLen) \ {<<>>}

\* letter - 'A' + 1, in either case
DigitOf(ch) ==
    IF IsUpperLetter(ch) THEN LetterPos(UpperLetters, ch) ELSE LetterPos(LowerLetters, ch)

RECURSIVE Pow26(_)
Pow26(n) == IF n = 0 THEN 1 ELSE 26 * Pow26(n - 1)

\* the base-26 positional value: the sum of digit * 26^(places to the right)
RECURSIVE Positional(_)
Positional(s) ==
    IF s = <<>> THEN 0
    ELSE DigitOf(Head(s)) * Pow26(Len(s) - 1) + Positional(Tail(s))

\* C7: for an input of one or more letters, col_to_idx returns the base-26 positional
\* value minus 1 (A->0, B->1, Z->25, AA->26, AB->27), and inputs that differ once
\* upper-cased get different indices.
C7_Base26 ==
    (col_res.exc # "idle" /\ col_s \in LetterInputs)
        => /\ IsOk(col_res)
           /\ col_res.val = Positional(col_s) - 1
           /\ col_s = << "A" >> => col_res.val = 0
           /\ col_s = << "B" >> => col_res.val = 1
           /\ col_s = << "Z" >> => col_res.val = 25
           /\ col_s = << "A", "A" >> => col_res.val = 26
           /\ col_s = << "A", "B" >> => col_res.val = 27
           /\ \A t \in LetterInputs :
                 upper(t) # upper(col_s) => col_to_idx(t).val # col_res.val

\* a two-letter input in mixed case, decoded
C7_Witness ==
    /\ col_s = << "a", "B" >>
    /\ IsOk(col_res)
    /\ col_res.val = 27

IsLetter(ch) == IsUpperLetter(ch) \/ IsLowerLetter(ch)

\* C8 as stated: col_to_idx fails for the empty string and for every input with a
\* character that is not a letter, whitespace at any position included.
C8_RejectsAnyNonLetter ==
    (/\ col_res.exc # "idle"
     /\ col_s = <<>> \/ \E i \in 1..Len(col_s) : ~IsLetter(col_s[i]))
        => col_res.exc = "ValueError"

\* C8 amended: col_to_idx fails for every input that, with its leading and trailing
\* whitespace removed and upper-cased, is empty or has a character outside A-Z.
C8_RejectsAfterStrip ==
    (/\ col_res.exc # "idle"
     /\ \/ strip(col_s) = <<>>
        \/ \E i \in 1..Len(strip(col_s)) : ~IsUpperLetter(upper(strip(col_s))[i]))
        => col_res.exc = "ValueError"

\* an input with whitespace between two letters, rejected
C8_Witness ==
    /\ col_s = << "A", " ", "B" >>
    /\ col_res.exc = "ValueError"

\* C9: build_vplanx puts under rootElements one section per record, in record order,
\* with the record's title as name, its description, its type and "1" as the
\* attributes details, type and planned_elements, and one metricsPort with one
\* mappingPattern of domain HDL, entity kind INSTANCE and the record's link as pattern.
C9_OneSectionPerRecord ==
    b_tree # None =>
        /\ Len(Val(b_tree).rootElements) = Len(b_entries)
        /\ \A i \in 1..Len(b_entries) :
              /\ Val(b_tree).rootElements[i].name = b_entries[i].title
              /\ Val(b_tree).rootElements[i].attributes =
                     << [name |-> "details", value |-> b_entries[i].desc],
                        [name |-> "type", value |-> b_entries[i].type],
                        [name |-> "planned_elements", value |-> << "1" >>] >>
              /\ Len(Val(b_tree).rootElements[i].metricsPort) = 1
              /\ Len(Val(b_tree).rootElements[i].metricsPort[1].mappingPatterns) = 1
              /\ Val(b_tree).rootElements[i].metricsPort[1].mappingPatterns[1].domains
                     = << "HDL" >>
              /\ Val(b_tree).rootElements[i].metricsPort[1].mappingPatterns[1].entityKinds
                     = << "INSTANCE" >>
              /\ Val(b_tree).rootElements[i].metricsPort[1].mappingPatterns[1].pattern
                     = b_entries[i].link

\* a document built from two different records, with links that are not their titles
C9_Witness ==
    /\ b_tree # None
    /\ Len(b_entries) = 2
    /\ b_entries[1] # b_entries[2]
    /\ b_entries[1].link # <<>>

\* the key a header cell is classified to by the fixed priority
Classify(name) ==
    IF Contains(sTitle, name) THEN "title"
    ELSE IF Contains(sLink, name) THEN "link"
    ELSE IF Contains(sDescription, name) THEN "description"
    ELSE IF name = sType THEN "type"
    ELSE "none"

\* the 0-based index of the first header cell classified to key, or None
FirstOf(hdr, key) ==
    IF \E j \in 1..Len(hdr) : Classify(hdr[j]) = key
    THEN Some((CHOOSE j \in 1..Len(hdr) :
                  Classify(hdr[j]) = key /\ \A k \in 1..(j - 1) : Classify(hdr[k]) # key) - 1)
    ELSE None

\* C10: each header cell is classified to at most one key by the fixed priority and
\* each key is mapped to the first cell classified to it; a later cell classified to a
\* mapped key is assigned to no key.
C10_FirstMatchPerKey ==
    header # None =>
        /\ name_to_idx.title = FirstOf(Val(header), "title")
        /\ name_to_idx.link = FirstOf(Val(header), "link")
        /\ name_to_idx.description = FirstOf(Val(header), "description")
        /\ name_to_idx.type = FirstOf(Val(header), "type")

====
